---------------------------- MODULE Spec2Model ----------------------------
(***************************************************************************)
(* Model of the distance-table loader/assembler of the notebook            *)
(* notebooks/arbre_phylogenetique.ipynb: the parse cell (os.listdir, the   *)
(* loop over sorted(files), line.split, dist[...] = ..., names) and the    *)
(* matrix cell (the two-probe lookup, float(), matrix.append).             *)
(*                                                                         *)
(* Text is modelled as Python models it: a str is a sequence of code       *)
(* points (here: ASCII codes), so that sorted() is the code-point          *)
(* lexicographic order, split() really cuts at the tab character and       *)
(* float() really parses the text of the third field.                      *)
(***************************************************************************)
EXTENDS Integers, Sequences, FiniteSets, TLC

(***************************************************************************)
(* Bounds of the model.                                                    *)
(***************************************************************************)
\* total number of lines over all the files of the directory
MaxLines == 2
\* number of times the notebook is run over the same directory
MaxRuns == 2

(***************************************************************************)
(* Characters the code names.                                              *)
(***************************************************************************)
\* '\t', the separator of line.split('\t')
TAB == 9
\* '\n', the end of each line yielded by "for line in distfile"
NL == 10

(***************************************************************************)
(* Python str operations.                                                  *)
(***************************************************************************)
\* str.__lt__: code-point lexicographic order, a proper prefix comes first
RECURSIVE StrLess(_, _)
StrLess(s, t) ==
    IF t = <<>> THEN FALSE
    ELSE IF s = <<>> THEN TRUE
    ELSE IF Head(s) = Head(t) THEN StrLess(Tail(s), Tail(t))
    ELSE Head(s) < Head(t)

\* line.split('\t'): k separators give k+1 fields, empty fields are kept
RECURSIVE split(_)
split(line) ==
    IF line = <<>> THEN << <<>> >>
    ELSE LET rest == split(Tail(line)) IN
         IF Head(line) = TAB
         THEN << <<>> >> \o rest
         ELSE << <<Head(line)>> \o Head(rest) >> \o Tail(rest)

\* the characters str.strip() and float() treat as white space
IsSpace(c) == c \in {9, 10, 11, 12, 13, 32}

RECURSIVE lstrip(_)
lstrip(s) ==
    IF s # <<>> /\ IsSpace(Head(s)) THEN lstrip(Tail(s)) ELSE s

RECURSIVE rstrip(_)
rstrip(s) ==
    IF s # <<>> /\ IsSpace(s[Len(s)]) THEN rstrip(SubSeq(s, 1, Len(s) - 1)) ELSE s

IsDigit(c) == c \in 48..57

\* the value of a string of decimal digits
RECURSIVE DigitsValue(_)
DigitsValue(s) ==
    IF s = <<>> THEN 0
    ELSE 10 * DigitsValue(SubSeq(s, 1, Len(s) - 1)) + (s[Len(s)] - 48)

\* a decimal number m * 10^(-e) in lowest terms: equal numbers, equal pairs
RECURSIVE Normalize(_, _)
Normalize(m, e) ==
    IF m = 0 THEN <<0, 0>>
    ELSE IF e > 0 /\ m % 10 = 0 THEN Normalize(m \div 10, e - 1)
    ELSE <<m, e>>

\* float(text) on unsigned decimal literals "ddd", "ddd.ddd", "ddd." and ".ddd"
\* (surrounding white space is ignored); anything else in the model's inputs
\* is not a number and raises ValueError.  The result is a record: whether
\* the call raises, and the number it returns when it does not.
float(text) ==
    LET t    == rstrip(lstrip(text))
        dots == {i \in 1..Len(t) : t[i] = 46}
        digs == SelectSeq(t, IsDigit)
    IN  IF /\ digs # <<>>
           /\ Cardinality(dots) <= 1
           /\ \A i \in 1..Len(t) : IsDigit(t[i]) \/ t[i] = 46
        THEN LET e == IF dots = {} THEN 0
                      ELSE Len(t) - (CHOOSE i \in dots : TRUE)
             IN  [raises |-> FALSE, value |-> Normalize(DigitsValue(digs), e)]
        ELSE [raises |-> TRUE, value |-> <<0, 0>>]

\* the int 0 the matrix cell appends for a pair found under neither key
\* (Python: 0 == 0.0)
Zero == <<0, 0>>

\* list.insert of one element at its place in an already sorted list
RECURSIVE InsertSorted(_, _)
InsertSorted(x, s) ==
    IF s = <<>> THEN <<x>>
    ELSE IF StrLess(x, Head(s)) THEN <<x>> \o s
    ELSE <<Head(s)>> \o InsertSorted(x, Tail(s))

\* a sorted() that returns the list in the order given
sortedAsGiven(s) == s

\* sorted(list) for a list of str
RECURSIVE sorted(_)
sorted(s) ==
    IF s = <<>> THEN <<>>
    ELSE InsertSorted(s[Len(s)], sorted(SubSeq(s, 1, Len(s) - 1)))

(***************************************************************************)
(* The inputs: a directory of files of lines.                              *)
(***************************************************************************)
\* genome identifiers "G1", "G10", "G2" (in str order: G1 < G10 < G2)
G1 == <<71, 49>>
G10 == <<71, 49, 48>>
G2 == <<71, 50>>

\* the fields of one line joined by tabs, as mash dist writes them
RECURSIVE JoinTab(_)
JoinTab(fields) ==
    IF Len(fields) = 1 THEN fields[1]
    ELSE fields[1] \o <<TAB>> \o JoinTab(Tail(fields))

MkLine(fields) == JoinTab(fields) \o <<NL>>

\* the lines a file may hold
LineSet ==
    { MkLine(<<G1, G2, <<48, 46, 53>>>>),                      \* G1 G2 0.5
      MkLine(<<G1, G2, <<48, 46, 50, 53>>, <<48>>, <<57, 47, 49, 48>>>>),
                                                              \* G1 G2 0.25 0 9/10
      MkLine(<<G2, G1, <<48, 46, 50, 53>>>>),                  \* G2 G1 0.25
      MkLine(<<G2, G1, <<48, 46, 53, 48>>>>),                  \* G2 G1 0.50
      MkLine(<<G1, G1, <<48, 46, 53>>>>),                      \* G1 G1 0.5
      MkLine(<<G2, G10, <<48, 46, 50, 53>>>>),                 \* G2 G10 0.25
      MkLine(<<G1, G2, <<120>>>>),                             \* G1 G2 x
      MkLine(<<G1, G2>>) }                                     \* G1 G2

\* file names "a" and "b"
FileA == <<97>>
FileB == <<98>>
FileNames == {FileA, FileB}

LineSeqs == UNION {[1..n -> LineSet] : n \in 0..MaxLines}

EmptyDir == [f \in {} |-> <<>>]

\* every directory of at most two files holding at most MaxLines lines in all
Directories ==
    {EmptyDir}
    \cup {(f :> ls) : f \in FileNames, ls \in LineSeqs}
    \cup {(FileA :> SubSeq(x[1], 1, x[2])) @@ (FileB :> SubSeq(x[1], x[2] + 1, Len(x[1]))) :
             x \in {y \in LineSeqs \X (0..MaxLines) : y[2] <= Len(y[1])}}

\* the orders os.listdir may return the file names in
Listings(d) ==
    {s \in [1..Cardinality(DOMAIN d) -> DOMAIN d] :
        \A i, j \in DOMAIN s : i # j => s[i] # s[j]}

(***************************************************************************)
(* State.                                                                  *)
(***************************************************************************)
VARIABLES
    dir,        \* the directory ../data/mashDist: file name -> its lines
    files,      \* files = os.listdir(...)
    fileIdx,    \* position of "for file in sorted(files)"
    lineIdx,    \* position of "for line in distfile"
    dist,       \* dict: (reference, query) -> text of the third field
    names,      \* list of genome names
    matrix,     \* list of rows
    dm,         \* DistanceMatrix(matrix, names); <<>> while not created
    pc,         \* "start", "parse", "matrix", "done" or "error"
    exc,        \* the exception that ended the run, "none" otherwise
    prev,       \* what the previous run over the same directory produced
    runs        \* number of the current run

vars == <<dir, files, fileIdx, lineIdx, dist, names, matrix, dm, pc, exc, prev, runs>>

EmptyDict == [k \in {} |-> <<>>]

NoRun == [pc |-> "none", exc |-> "none", files |-> <<>>, names |-> <<>>,
          matrix |-> <<>>, dm |-> <<>>]

\* what a run leaves behind
Outcome == [pc |-> pc, exc |-> exc, files |-> files, names |-> names,
            matrix |-> matrix, dm |-> dm]

Init ==
    /\ dir \in Directories
    /\ files = <<>>
    /\ fileIdx = 1
    /\ lineIdx = 1
    /\ dist = EmptyDict
    /\ names = <<>>
    /\ matrix = <<>>
    /\ dm = <<>>
    /\ pc = "start"
    /\ exc = "none"
    /\ prev = NoRun
    /\ runs = 1

(***************************************************************************)
(* The parse cell.                                                         *)
(***************************************************************************)
\* files = os.listdir('../data/mashDist'); dist = {}; names = []
ListDir ==
    /\ pc = "start"
    /\ files' \in Listings(dir)
    /\ dist' = EmptyDict
    /\ names' = <<>>
    /\ fileIdx' = 1
    /\ lineIdx' = 1
    /\ pc' = "parse"
    /\ UNCHANGED <<dir, matrix, dm, exc, prev, runs>>

\* iterating over files in the order os.listdir gave
fileOrderAsListed(fs) == fs

\* the list "for file in sorted(files)" iterates over
fileOrder(fs) == sorted(fs)

\* dist.setdefault(key, value): the first value read is kept
setitemKeepFirst(d, key, value) ==
    [k \in DOMAIN d \cup {key} |-> IF k \in DOMAIN d THEN d[k] ELSE value]

\* dist[key] = value
setitem(d, key, value) ==
    [k \in DOMAIN d \cup {key} |-> IF k = key THEN value ELSE d[k]]

\* if name not in names: names.append(name)
appendIfAbsent(ns, name) ==
    IF \E i \in 1..Len(ns) : ns[i] = name THEN ns ELSE Append(ns, name)

\* one iteration of "for line in distfile"
ParseLine ==
    /\ pc = "parse"
    /\ fileIdx <= Len(fileOrder(files))
    /\ lineIdx <= Len(dir[fileOrder(files)[fileIdx]])
    /\ LET line  == dir[fileOrder(files)[fileIdx]][lineIdx]
           liste == split(line)
       IN  IF Len(liste) < 3
           THEN \* liste[2] (or liste[1]) raises IndexError before dist changes
                /\ pc' = "error"
                /\ exc' = "IndexError"
                /\ UNCHANGED <<dist, names, lineIdx>>
           ELSE /\ dist' = setitem(dist, <<liste[1], liste[2]>>, liste[3])
                /\ names' = appendIfAbsent(appendIfAbsent(names, liste[1]), liste[2])
                /\ lineIdx' = lineIdx + 1
                /\ UNCHANGED <<pc, exc>>
    /\ UNCHANGED <<dir, files, fileIdx, matrix, dm, prev, runs>>

\* the end of one file: the with block closes it, the loop takes the next
NextFile ==
    /\ pc = "parse"
    /\ fileIdx <= Len(fileOrder(files))
    /\ lineIdx > Len(dir[fileOrder(files)[fileIdx]])
    /\ fileIdx' = fileIdx + 1
    /\ lineIdx' = 1
    /\ UNCHANGED <<dir, files, dist, names, matrix, dm, pc, exc, prev, runs>>

\* after the loop: names = sorted(names); then the matrix cell's matrix = []
SortNames ==
    /\ pc = "parse"
    /\ fileIdx > Len(fileOrder(files))
    /\ names' = sorted(names)
    /\ matrix' = <<>>
    /\ pc' = "matrix"
    /\ UNCHANGED <<dir, files, fileIdx, lineIdx, dist, dm, exc, prev, runs>>

(***************************************************************************)
(* The matrix cell.                                                        *)
(***************************************************************************)
\* the two probes in the other order: key2, else key, else 0
entryKey2First(d, nameA, nameB) ==
    LET key  == <<nameA, nameB>>
        key2 == <<nameB, nameA>>
    IN  IF key2 \in DOMAIN d THEN float(d[key2])
        ELSE IF key \in DOMAIN d THEN float(d[key])
        ELSE [raises |-> FALSE, value |-> <<0, 0>>]

\* one probe only: key, else 0
entryNoKey2(d, nameA, nameB) ==
    LET key == <<nameA, nameB>>
    IN  IF key \in DOMAIN d THEN float(d[key])
        ELSE [raises |-> FALSE, value |-> <<0, 0>>]

\* the entry for (nameA, nameB): key, else key2, else 0
entry(d, nameA, nameB) ==
    LET key  == <<nameA, nameB>>
        key2 == <<nameB, nameA>>
    IN  IF key \in DOMAIN d THEN float(d[key])
        ELSE IF key2 \in DOMAIN d THEN float(d[key2])
        ELSE [raises |-> FALSE, value |-> Zero]

\* one iteration of "for nameA in names": the whole inner loop and the append
MatrixRow ==
    /\ pc = "matrix"
    /\ Len(matrix) < Len(names)
    /\ LET nameA    == names[Len(matrix) + 1]
           cells    == [j \in 1..Len(names) |-> entry(dist, nameA, names[j])]
           dist_tmp == [j \in 1..Len(names) |-> cells[j].value]
       IN  IF \E j \in 1..Len(names) : cells[j].raises
           THEN /\ pc' = "error"
                /\ exc' = "ValueError"
                /\ UNCHANGED matrix
           ELSE /\ matrix' = Append(matrix, dist_tmp)
                /\ UNCHANGED <<pc, exc>>
    /\ UNCHANGED <<dir, files, fileIdx, lineIdx, dist, names, dm, prev, runs>>

\* dm = DistanceMatrix(matrix, names)
CreateDM ==
    /\ pc = "matrix"
    /\ Len(matrix) = Len(names)
    /\ dm' = <<matrix, names>>
    /\ pc' = "done"
    /\ UNCHANGED <<dir, files, fileIdx, lineIdx, dist, names, matrix, exc, prev, runs>>

(***************************************************************************)
(* Running the notebook again over the same directory.                     *)
(***************************************************************************)
Rerun ==
    /\ pc \in {"done", "error"}
    /\ runs < MaxRuns
    /\ prev' = Outcome
    /\ runs' = runs + 1
    /\ files' = <<>>
    /\ fileIdx' = 1
    /\ lineIdx' = 1
    /\ dist' = EmptyDict
    /\ names' = <<>>
    /\ matrix' = <<>>
    /\ dm' = <<>>
    /\ pc' = "start"
    /\ exc' = "none"
    /\ UNCHANGED dir

Next ==
    \/ ListDir
    \/ ParseLine
    \/ NextFile
    \/ SortNames
    \/ MatrixRow
    \/ CreateDM
    \/ Rerun

Spec == Init /\ [][Next]_vars

(***************************************************************************)
(* The input as the properties speak of it.                                *)
(***************************************************************************)
\* the places (file, line number) of the lines of the directory
Positions == UNION {{<<f, i>> : i \in 1..Len(dir[f])} : f \in DOMAIN dir}

FieldsAt(p) == split(dir[p[1]][p[2]])

\* at least three tab-separated fields, and a numeric third field
WellFormedLine(p) ==
    /\ Len(FieldsAt(p)) >= 3
    /\ ~float(FieldsAt(p)[3]).raises

WellFormed == \A p \in Positions : WellFormedLine(p)

KeyAt(p) == <<FieldsAt(p)[1], FieldsAt(p)[2]>>

DistanceAt(p) == float(FieldsAt(p)[3]).value

\* the places whose line has exactly the key (a, b)
PlacesOf(a, b) == {p \in Positions : Len(FieldsAt(p)) >= 3 /\ KeyAt(p) = <<a, b>>}

\* processing order: by file name in str order, then by line number
Before(p, q) == StrLess(p[1], q[1]) \/ (p[1] = q[1] /\ p[2] < q[2])

Last(S) == CHOOSE p \in S : \A q \in S \ {p} : Before(q, p)

\* the identifiers of columns 1 and 2
Identifiers == UNION {{FieldsAt(p)[1], FieldsAt(p)[2]} : p \in Positions}

Index(n) == CHOOSE i \in 1..Len(names) : names[i] = n

(***************************************************************************)
(* Properties.                                                             *)
(***************************************************************************)
\* C1: for every well-formed input, once the parse and the matrix phase
\* have run, the matrix is symmetric: matrix[i][j] = matrix[j][i], also when
\* a pair is listed both as (A,B) and as (B,A).
C1_Symmetric ==
    (pc = "done" /\ WellFormed) =>
        \A i, j \in 1..Len(names) : matrix[i][j] = matrix[j][i]

\* C2: for every well-formed input every diagonal entry of the matrix is 0,
\* whatever lines the files hold.
C2_DiagonalZero ==
    (pc = "done" /\ WellFormed) =>
        \A i \in 1..Len(names) : matrix[i][i] = Zero

C4_OneKeyPerUnorderedPair ==
    \A k \in DOMAIN dist :
        k[1] # k[2] => <<k[2], k[1]>> \notin DOMAIN dist

\* C5: whenever some line is malformed, the run aborts and produces no
\* matrix, wherever the line sits and whatever lines follow it.
C5_MalformedAborts ==
    (pc = "done" \/ dm # <<>>) => WellFormed

\* C6: for every well-formed input, the final name list is strictly
\* increasing in str order and enumerates exactly the identifiers of
\* columns 1 and 2 of all lines.
C6_SortedNames ==
    (pc \in {"matrix", "done"} /\ WellFormed) =>
        /\ \A i \in 1..(Len(names) - 1) : StrLess(names[i], names[i + 1])
        /\ {names[i] : i \in 1..Len(names)} = Identifiers

\* C6's case: three identifiers, the first line naming a later identifier
\* before an earlier one, names sorted.
C6_Witness ==
    /\ pc = "done"
    /\ WellFormed
    /\ Len(names) = 3
    /\ \E f \in DOMAIN dir :
        /\ Len(dir[f]) >= 1
        /\ StrLess(FieldsAt(<<f, 1>>)[2], FieldsAt(<<f, 1>>)[1])
        /\ \A g \in DOMAIN dir : g = f \/ StrLess(f, g)

\* C7: two runs over the same directory produce the same name order and the
\* same matrix, whatever orders os.listdir returned.
C7_SameResult ==
    (prev.pc # "none" /\ pc \in {"done", "error"}) =>
        /\ prev.pc = pc
        /\ prev.exc = exc
        /\ prev.names = names
        /\ prev.matrix = matrix
        /\ prev.dm = dm

\* C7's case: two finished runs whose listings differ, over two files that
\* give the same key two distances.
C7_Witness ==
    /\ prev.pc = "done"
    /\ pc = "done"
    /\ prev.files # files
    /\ \E p, q \in Positions :
        /\ p[1] # q[1]
        /\ KeyAt(p) = KeyAt(q)
        /\ DistanceAt(p) # DistanceAt(q)

\* C8: for a key read more than once, the value dist keeps, and the matrix
\* entry at (index(reference), index(query)), is that of the last such line
\* in processing order: files in str order of their names, lines in order.
C8_LastLineWins ==
    /\ pc \in {"matrix", "done"} =>
        \A p \in Positions :
            dist[KeyAt(p)] = FieldsAt(Last(PlacesOf(KeyAt(p)[1], KeyAt(p)[2])))[3]
    /\ pc = "done" =>
        \A p \in Positions :
            matrix[Index(KeyAt(p)[1])][Index(KeyAt(p)[2])] =
                DistanceAt(Last(PlacesOf(KeyAt(p)[1], KeyAt(p)[2])))

\* C8's case: the same key with different distances in both files, and the
\* listing not in str order.
C8_Witness ==
    /\ pc = "done"
    /\ Len(files) = 2
    /\ StrLess(files[2], files[1])
    /\ \E p, q \in Positions :
        /\ p[1] # q[1]
        /\ KeyAt(p) = KeyAt(q)
        /\ DistanceAt(p) # DistanceAt(q)

\* the entry for (a, b) read off the input: the last line with key (a, b),
\* else the last line with key (b, a), else 0
ExpectedEntry(a, b) ==
    IF PlacesOf(a, b) # {} THEN DistanceAt(Last(PlacesOf(a, b)))
    ELSE IF PlacesOf(b, a) # {} THEN DistanceAt(Last(PlacesOf(b, a)))
    ELSE Zero

\* C9: every entry is the value stored under (nameA, nameB) if that key
\* exists, else the value stored under (nameB, nameA) if that key exists,
\* else 0; two genomes that never share a line get 0 in both positions and a
\* well-formed run completes without error.
C9_LookupOrder ==
    /\ pc = "done" =>
        /\ Len(matrix) = Len(names)
        /\ \A i, j \in 1..Len(names) :
              matrix[i][j] = ExpectedEntry(names[i], names[j])
    /\ pc = "error" => ~WellFormed

\* C9's case: the lines (G1, G2) and (G2, G10) only; G1 and G10 never share
\* a line and get 0 in both positions.
C9_Witness ==
    /\ pc = "done"
    /\ names = <<G1, G10, G2>>
    /\ PlacesOf(G1, G2) # {}
    /\ PlacesOf(G2, G10) # {}
    /\ Cardinality(Positions) = 2
    /\ matrix[1][2] = Zero
    /\ matrix[2][1] = Zero
    /\ matrix[1][3] # Zero
    /\ matrix[3][1] = matrix[1][3]

\* the canonical scheme: every pair stored under (min, max), last write
\* wins, one lookup
CanonicalEntry(a, b) ==
    LET S == PlacesOf(a, b) \cup PlacesOf(b, a)
    IN  IF S # {} THEN DistanceAt(Last(S)) ELSE Zero

\* C10: for every well-formed input the program and the canonical scheme
\* produce the same name list and the same matrix.
C10_SameAsCanonical ==
    (pc = "done" /\ WellFormed) =>
        \A i, j \in 1..Len(names) :
            matrix[i][j] = CanonicalEntry(names[i], names[j])

=============================================================================
